---------------------------- MODULE Spec2Model ----------------------------
(***************************************************************************)
(* Model of app_bolsa_streamlit.py: the statistics function compute_stats  *)
(* (Ret YTD, Ret 1Y, Vol anual, Max Drawdown, CAGR over a Date/Close       *)
(* frame) and their display by format_pct (Spec), the download of a        *)
(* history by get_history (SpecHistory), and the watchlist file with its   *)
(* two buttons (SpecWatchlist).                                            *)
(*                                                                         *)
(* Numbers.  The code computes in 64-bit floats.  The model computes the   *)
(* same expressions, in the same order, over the extended rationals: a     *)
(* value is a finite rational, +inf, -inf or NaN, with the IEEE rules for  *)
(* x/0, inf-inf, 0*inf and NaN propagation, and with the pandas rules for  *)
(* skipping NaN in cumprod, cummax, count, min and std.  Rounding is not   *)
(* modelled.  Two irrational results stay symbolic: the square root in     *)
(* Vol anual (kind "Sqrt") and the power in CAGR (kind "PowM1").           *)
(* A Python None is the value of kind "None".                              *)
(***************************************************************************)
EXTENDS Integers, Sequences, FiniteSets, TLC

VARIABLES price_df, df, stats, shown, exc, pc

\* get_history: the two import flags, the cache of the decorator, the
\* arguments of the call, what the call has done so far and its result.
VARIABLES HAS_YF, HAS_ST, cache, ticker, start, end, tried, yf_answer,
          chart_answer, hist, error_shown, hit, raised, hpc

statsVars == <<price_df, df, stats, shown, exc, pc>>

histVars == <<HAS_YF, HAS_ST, cache, ticker, start, end, tried, yf_answer,
              chart_answer, hist, error_shown, hit, raised, hpc>>

\* The watchlist: the file watchlist.json, the list the last save wrote, the
\* last button pressed, the last button pressed for each symbol, and whether
\* every save so far has succeeded.
VARIABLES file, written, last_press, last_action, all_saved

wlVars == <<file, written, last_press, last_action, all_saved>>

vars == <<statsVars, histVars, wlVars>>

(***************************************************************************)
(* Bounds of the model                                                     *)
(***************************************************************************)
\* Longest price series handed to compute_stats.
MaxLen == 3

\* Longest price series in which two rows may carry the same date.
MaxSameDateLen == 2

\* Longest list of quotes a data source answers with.
MaxFetched == 2

\* Longest list found in watchlist.json when the program starts.
MaxStored == 3

\* Ticker symbols of the watchlist; the lower-case one is a symbol an
\* earlier edit of the file left there.
Symbols == {"AAPL", "MSFT", "aapl"}

\* Close prices of the rows: -1 and 0 are the non-positive prices, 1..3 the
\* positive ones.
Closes == {0 - 1, 0, 1, 2, 3}

\* Calendar dates of the rows: around a year boundary, and around the day one
\* calendar year before a leap day.
Dates ==
  { [year |-> 2022, month |-> 12, day |-> 31],
    [year |-> 2023, month |-> 1,  day |-> 1],
    [year |-> 2023, month |-> 2,  day |-> 28],
    [year |-> 2024, month |-> 1,  day |-> 1],
    [year |-> 2024, month |-> 2,  day |-> 29] }

(***************************************************************************)
(* Calendar: datetime / pandas.Timestamp at midnight, dateutil             *)
(***************************************************************************)
IsLeap(y) == (y % 4 = 0) /\ ((y % 100 # 0) \/ (y % 400 = 0))

DaysInMonth(y, m) ==
  IF m = 2 THEN (IF IsLeap(y) THEN 29 ELSE 28)
  ELSE IF m \in {4, 6, 9, 11} THEN 30 ELSE 31

\* The days of year y before the first day of month m.
DaysBeforeMonth(y, m) ==
  <<0, 31, 59, 90, 120, 151, 181, 212, 243, 273, 304, 334>>[m]
    + (IF m > 2 /\ IsLeap(y) THEN 1 ELSE 0)

\* Proleptic Gregorian ordinal of a date, as datetime.toordinal.
Ordinal(d) ==
  LET y1 == d.year - 1
  IN  y1 * 365 + (y1 \div 4) - (y1 \div 100) + (y1 \div 400)
        + DaysBeforeMonth(d.year, d.month) + d.day

\* (a - b).days for two midnight timestamps.
DaysBetween(a, b) == Ordinal(a) - Ordinal(b)

\* a >= b on timestamps.
DateGe(a, b) == Ordinal(a) >= Ordinal(b)

\* A window that starts with the month of the last observation, not its year.
StartOfMonth(last) == [year |-> last.year, month |-> last.month, day |-> 1]

\* datetime(last.year, 1, 1)
StartOfYear(last) == [year |-> last.year, month |-> 1, day |-> 1]

\* last - relativedelta(years=1): same month and day one year earlier, the
\* day clamped to the length of that month (Feb 29 -> Feb 28).
MinusOneYear(last) ==
  LET y == last.year - 1
      dim == DaysInMonth(y, last.month)
  IN  [year |-> y, month |-> last.month,
       day |-> IF last.day > dim THEN dim ELSE last.day]

(***************************************************************************)
(* Extended rationals                                                      *)
(***************************************************************************)
Abs(n) == IF n < 0 THEN 0 - n ELSE n

RECURSIVE Gcd(_, _)
Gcd(a, b) == IF b = 0 THEN a ELSE Gcd(b, a % b)

None == [kind |-> "None", num |-> 0, den |-> 1, days |-> 0]
NaN  == [kind |-> "NaN",  num |-> 0, den |-> 1, days |-> 0]
PInf == [kind |-> "Inf",  num |-> 1, den |-> 1, days |-> 0]
NInf == [kind |-> "Inf",  num |-> 0 - 1, den |-> 1, days |-> 0]

\* The finite rational n/d (d # 0), in lowest terms with a positive denominator.
Fin(n, d) ==
  LET g == Gcd(Abs(n), Abs(d))
      s == IF d < 0 THEN 0 - 1 ELSE 1
  IN  [kind |-> "Fin", num |-> (s * n) \div g, den |-> (s * d) \div g, days |-> 0]

Zero == Fin(0, 1)
One  == Fin(1, 1)

IsNaN(x) == x.kind = "NaN"
IsFin(x) == x.kind = "Fin"
IsInf(x) == x.kind = "Inf"
\* math.isnan / math.isinf say no: a number a caller can use.
IsNumber(x) == x.kind \in {"Fin", "Sqrt", "PowM1"}

Sign(x) == IF x.num > 0 THEN 1 ELSE IF x.num < 0 THEN 0 - 1 ELSE 0
InfOfSign(s) == IF s > 0 THEN PInf ELSE NInf

XAdd(a, b) ==
  IF IsNaN(a) \/ IsNaN(b) THEN NaN
  ELSE IF IsInf(a) /\ IsInf(b) THEN (IF a = b THEN a ELSE NaN)
  ELSE IF IsInf(a) THEN a
  ELSE IF IsInf(b) THEN b
  ELSE Fin(a.num * b.den + b.num * a.den, a.den * b.den)

XNeg(a) ==
  IF IsNaN(a) THEN NaN
  ELSE IF IsInf(a) THEN InfOfSign(0 - Sign(a))
  ELSE Fin(0 - a.num, a.den)

XSub(a, b) == XAdd(a, XNeg(b))

XMul(a, b) ==
  IF IsNaN(a) \/ IsNaN(b) THEN NaN
  ELSE IF IsInf(a) \/ IsInf(b)
       THEN (IF Sign(a) = 0 \/ Sign(b) = 0 THEN NaN ELSE InfOfSign(Sign(a) * Sign(b)))
  ELSE Fin(a.num * b.num, a.den * b.den)

\* a / b.  A zero divisor is +0: the code never divides a non-zero number by
\* a computed zero of either sign (see the note at MaxDrawdown).
XDiv(a, b) ==
  IF IsNaN(a) \/ IsNaN(b) THEN NaN
  ELSE IF IsInf(a) /\ IsInf(b) THEN NaN
  ELSE IF IsInf(a) THEN InfOfSign(Sign(a) * (IF Sign(b) < 0 THEN 0 - 1 ELSE 1))
  ELSE IF IsInf(b) THEN Zero
  ELSE IF b.num = 0 THEN (IF a.num = 0 THEN NaN ELSE InfOfSign(Sign(a)))
  ELSE Fin(a.num * b.den, a.den * b.num)

\* a <= b on non-NaN values.
XLe(a, b) ==
  IF IsInf(a) THEN (Sign(a) < 0 \/ a = b)
  ELSE IF IsInf(b) THEN Sign(b) > 0
  ELSE a.num * b.den <= b.num * a.den

XMin2(a, b) == IF XLe(a, b) THEN a ELSE b
XMax2(a, b) == IF XLe(a, b) THEN b ELSE a

(***************************************************************************)
(* pandas Series operations used by compute_stats (skipna=True defaults)   *)
(***************************************************************************)
\* The Close column as numbers.
CloseCol(f) == [i \in 1..Len(f) |-> Fin(f[i].Close, 1)]

\* The change taken the wrong way round: c[i-1] / c[i] - 1.
PctChangeBackwards(c) ==
  [i \in 1..Len(c) |-> IF i = 1 THEN NaN ELSE XSub(XDiv(c[i - 1], c[i]), One)]

\* Series.pct_change(): NaN in the first row, then c[i] / c[i-1] - 1.
PctChange(c) ==
  [i \in 1..Len(c) |-> IF i = 1 THEN NaN ELSE XSub(XDiv(c[i], c[i - 1]), One)]

\* Series.count(): the number of non-NaN entries.
Count(s) == Cardinality({i \in 1..Len(s) : ~IsNaN(s[i])})

\* The non-NaN entries of a series, in order.
DropNa(s) == SelectSeq(s, LAMBDA x : ~IsNaN(x))

RECURSIVE XSum(_)
XSum(s) == IF Len(s) = 0 THEN Zero ELSE XAdd(Head(s), XSum(Tail(s)))

\* Series.std(): the sample standard deviation (ddof = 1) of the non-NaN
\* entries: sqrt(sum((mean - x)^2) / (count - 1)).  The result is kept as the
\* square root of a rational (kind "Sqrt"), 0 when the variance is 0, and NaN
\* when count < 2 or an entry is infinite.
Std(s) ==
  LET v == DropNa(s)
      n == Len(v)
  IN  IF n < 2 THEN NaN
      ELSE LET mean == XDiv(XSum(v), Fin(n, 1))
               sq   == [i \in 1..n |-> XMul(XSub(mean, v[i]), XSub(mean, v[i]))]
               var  == XDiv(XSum(sq), Fin(n - 1, 1))
           IN  IF ~IsFin(var) THEN NaN
               ELSE IF var.num = 0 THEN Zero
               ELSE [kind |-> "Sqrt", num |-> var.num, den |-> var.den, days |-> 0]

\* x * math.sqrt(252) for x = Series.std(): sqrt(v) * sqrt(252) = sqrt(252 v).
TimesSqrt252(x) ==
  IF x.kind = "Sqrt"
  THEN LET v == Fin(252 * x.num, x.den)
       IN  [kind |-> "Sqrt", num |-> v.num, den |-> v.den, days |-> 0]
  ELSE x

\* 1 + s, entry by entry.
OnePlus(s) == [i \in 1..Len(s) |-> XAdd(One, s[i])]

\* Series.cumprod(): the NaN entries of the input are skipped (they count as 1
\* and stay NaN in the output); a NaN produced by the product itself (0 * inf)
\* stays in the running product.
RECURSIVE CumProdFrom(_, _)
CumProdFrom(acc, s) ==
  IF Len(s) = 0 THEN <<>>
  ELSE IF IsNaN(Head(s)) THEN <<NaN>> \o CumProdFrom(acc, Tail(s))
  ELSE LET a == XMul(acc, Head(s)) IN <<a>> \o CumProdFrom(a, Tail(s))

CumProd(s) == CumProdFrom(One, s)

\* Series.cummax(): the running maximum of the non-NaN entries; NaN entries
\* stay NaN and do not enter the maximum.
RECURSIVE CumMaxFrom(_, _)
CumMaxFrom(acc, s) ==
  IF Len(s) = 0 THEN <<>>
  ELSE IF IsNaN(Head(s)) THEN <<NaN>> \o CumMaxFrom(acc, Tail(s))
  ELSE LET a == XMax2(acc, Head(s)) IN <<a>> \o CumMaxFrom(a, Tail(s))

CumMax(s) == CumMaxFrom(NInf, s)

\* Series.min(): the least non-NaN entry, NaN when there is none.
RECURSIVE MinFrom(_, _)
MinFrom(acc, s) ==
  IF Len(s) = 0 THEN acc ELSE MinFrom(XMin2(acc, Head(s)), Tail(s))

SeriesMin(s) ==
  LET v == DropNa(s) IN IF Len(v) = 0 THEN NaN ELSE MinFrom(Head(v), Tail(v))

\* The frame left in the caller's row order.
Unsorted(f) == {f}

\* The frames got by putting row r into the date-ordered frame g at a place
\* that keeps the dates in non-decreasing order.
InsertByDate(g, r) ==
  { SubSeq(g, 1, k) \o <<r>> \o SubSeq(g, k + 1, Len(g)) : k \in
      {k \in 0..Len(g) :
         /\ \A i \in 1..k : DateGe(r.Date, g[i].Date)
         /\ \A i \in (k + 1)..Len(g) : DateGe(g[i].Date, r.Date)} }

\* DataFrame.sort_values('Date'): the rows in non-decreasing date order.  The
\* default sort (quicksort) is not stable, so rows of equal date may come out
\* in any order: the set of all frames the call can return, which are the
\* date-ordered arrangements of the rows.
RECURSIVE SortValues(_)
SortValues(f) ==
  IF Len(f) <= 1 THEN {f}
  ELSE UNION { InsertByDate(g, f[Len(f)]) : g \in SortValues(SubSeq(f, 1, Len(f) - 1)) }

\* The filter with the bound left out: Date > bound.
AfterDate(f, bound) == SelectSeq(f, LAMBDA row : ~DateGe(bound, row.Date))

\* df[df['Date'] >= pd.Timestamp(bound)]
FromDate(f, bound) == SelectSeq(f, LAMBDA row : DateGe(row.Date, bound))

(***************************************************************************)
(* compute_stats                                                           *)
(***************************************************************************)
StatKeys == {"Ret YTD", "Ret 1Y", "Vol anual", "Max Drawdown", "CAGR"}

\* {k: None for k in [...]}
AllNone == [k \in StatKeys |-> None]

\* df['return'] = df['Close'].pct_change()
Returns(f) == PctChange(CloseCol(f))

\* The volatility computed as soon as one return exists.
VolOfOneReturn(f) ==
  IF Count(PctChange(CloseCol(f))) > 0
  THEN TimesSqrt252(Std(PctChange(CloseCol(f)))) ELSE None

\* vol = df['return'].std() * math.sqrt(252) if df['return'].count() > 1 else None
Vol(f) ==
  IF Count(Returns(f)) > 1 THEN TimesSqrt252(Std(Returns(f))) ELSE None

\* cum = (1 + df['return']).cumprod()
Cum(f) == CumProd(OnePlus(Returns(f)))

\* The drawdown without the "- 1": (cum/roll_max).min()
DrawdownRatio(f) ==
  SeriesMin([i \in 1..Len(f) |->
               XDiv(CumProd(OnePlus(PctChange(CloseCol(f))))[i],
                    CumMax(CumProd(OnePlus(PctChange(CloseCol(f)))))[i])])

\* roll_max = cum.cummax()
\* dd = (cum/roll_max - 1).min()
\* The first row of cum is NaN (the return of the first row is NaN and
\* cumprod leaves it NaN), so the first row takes no part in roll_max or in
\* the minimum.  Once cum is zero every later entry of cum is zero or NaN, so
\* a non-zero entry is never divided by a zero roll_max.
MaxDrawdown(f) ==
  LET cum == Cum(f)
      roll_max == CumMax(cum)
  IN  SeriesMin([i \in 1..Len(f) |-> XSub(XDiv(cum[i], roll_max[i]), One)])

\* base ** (1/years) - 1 with years = days / 365.25 > 0.  The exponent
\* 365.25/days is never an integer, so as the C pow does: a negative base
\* gives NaN, a zero base 0, an infinite base +inf, and 1 gives 1.  Any other
\* base stays symbolic: kind "PowM1" is (num/den) ^ (365.25/days) - 1.
PowMinusOne(base, days) ==
  IF IsNaN(base) THEN NaN
  ELSE IF IsInf(base) THEN PInf
  ELSE IF base.num < 0 THEN NaN
  ELSE IF base.num = 0 THEN Fin(0 - 1, 1)
  ELSE IF base = One THEN Zero
  ELSE [kind |-> "PowM1", num |-> base.num, den |-> base.den, days |-> days]

\* The growth measured from the second row instead of the first.
CagrFromSecondRow(f) ==
  IF Len(f) >= 2
  THEN LET days == DaysBetween(f[Len(f)].Date, f[1].Date)
       IN  IF days > 0
           THEN PowMinusOne(XDiv(Fin(f[Len(f)].Close, 1), Fin(f[2].Close, 1)), days)
           ELSE None
  ELSE None

\* if len(df) >= 2:
\*     years = (df['Date'].iloc[-1] - df['Date'].iloc[0]).days / 365.25
\*     cagr = (last close / first close) ** (1/years) - 1 if years > 0 else None
\* else: cagr = None
Cagr(f) ==
  IF Len(f) >= 2
  THEN LET days == DaysBetween(f[Len(f)].Date, f[1].Date)
       IN  IF days > 0
           THEN PowMinusOne(XDiv(CloseCol(f)[Len(f)], CloseCol(f)[1]), days)
           ELSE None
  ELSE None

\* The ratio of the last close to the first, without the "- 1".
WindowRatio(w) ==
  IF Len(w) > 1
  THEN XDiv(CloseCol(w)[Len(w)], CloseCol(w)[1])
  ELSE None

\* w['Close'].iloc[-1] / w['Close'].iloc[0] - 1 if len(w) > 1, else None
WindowReturn(w) ==
  IF Len(w) > 1
  THEN XSub(XDiv(CloseCol(w)[Len(w)], CloseCol(w)[1]), One)
  ELSE None

\* last = df['Date'].iloc[-1]; start_ytd = datetime(last.year, 1, 1)
\* ytd_df = df[df['Date'] >= pd.Timestamp(start_ytd)]
RetYtd(f) == WindowReturn(FromDate(f, StartOfYear(f[Len(f)].Date)))

\* one_year_ago = last - relativedelta(years=1)
\* one_year_df = df[df['Date'] >= pd.Timestamp(one_year_ago)]
Ret1y(f) == WindowReturn(FromDate(f, MinusOneYear(f[Len(f)].Date)))

\* The body of compute_stats after the sort, on the sorted copy f (not empty).
StatsOfSorted(f) ==
  ("Ret YTD" :> RetYtd(f)) @@ ("Ret 1Y" :> Ret1y(f)) @@ ("Vol anual" :> Vol(f))
    @@ ("Max Drawdown" :> MaxDrawdown(f)) @@ ("CAGR" :> Cagr(f))

(***************************************************************************)
(* format_pct: the text of a statistic in the five metric boxes            *)
(***************************************************************************)
\* The placeholder text, an em dash.
Dash == [kind |-> "Dash", hundredths |-> 0, of |-> None]

\* A metric box before anything is written into it.
Blank == [kind |-> "Blank", hundredths |-> 0, of |-> None]

\* n/d (d > 0) rounded to the nearest integer, a tie to the even one, as the
\* format specification .2f rounds the exact value it is given.
RoundHalfEven(n, d) ==
  LET q == n \div d
      r == n % d
  IN  IF 2 * r < d THEN q
      ELSE IF 2 * r > d THEN q + 1
      ELSE IF q % 2 = 0 THEN q ELSE q + 1

\* f"{x*100:.2f}%".  None * 100 raises TypeError.  NaN and the infinities
\* format as "nan%" and "inf%" (kind "NonFinite").  A rational formats as its
\* percentage rounded to hundredths.  The two symbolic kinds are finite
\* floats (a square root of a rational; a power of a base below 4 with an
\* exponent of at most 365.25, far below the float range): their text is a
\* percentage whose digits the model does not compute, and "of" keeps the
\* number instead.
PctText(x) ==
  IF x = None THEN [kind |-> "TypeError", hundredths |-> 0, of |-> None]
  ELSE IF IsNaN(x) \/ IsInf(x) THEN [kind |-> "NonFinite", hundredths |-> 0, of |-> x]
  ELSE IF IsFin(x)
       THEN [kind |-> "Pct", hundredths |-> RoundHalfEven(x.num * 10000, x.den), of |-> None]
  ELSE [kind |-> "Pct", hundredths |-> 0, of |-> x]

\* A format_pct that only looks for None.
FormatPctNoneOnly(x) == IF x = None THEN Dash ELSE PctText(x)

\* if x is None or (isinstance(x, float) and (math.isnan(x) or math.isinf(x))):
\*     return "—"
\* return f"{x*100:.2f}%"
\* Every number compute_stats returns is the result of a float division, a
\* numpy.float64, which is a float for isinstance.
FormatPct(x) ==
  IF x = None \/ IsNaN(x) \/ IsInf(x) THEN Dash ELSE PctText(x)

(***************************************************************************)
(* get_history: daily history from yfinance, else from the Yahoo Chart API *)
(***************************************************************************)
\* compute_stats and the metric boxes when the model follows another part of
\* the program.
StatsIdle ==
  /\ price_df = <<>>
  /\ df = <<>>
  /\ stats = AllNone
  /\ shown = [k \in StatKeys |-> Blank]
  /\ exc = "none"
  /\ pc = "idle"

\* The watchlist when the model follows another part of the program.
WatchlistIdle ==
  /\ file = [kind |-> "missing", items |-> <<>>]
  /\ written = [any |-> FALSE, items |-> <<>>]
  /\ last_press = [op |-> "none", symbol |-> ""]
  /\ last_action = [s \in Symbols |-> "none"]
  /\ all_saved = TRUE

Tickers == {"AAPL", "SAN.MC"}

\* start and end as the callers pass them: both None (range Max), or
\* now - delta and now.
NoDate == "None"
Periods == {<<NoDate, NoDate>>, <<"now - delta", "now">>}

\* A history frame is written as the sequence of its Close values, in row
\* order; a JSON null among the quotes of the Chart API is None.
FramesOf(values) == UNION {[1..n -> values] : n \in 0..MaxFetched}

\* What yf.Ticker(ticker).history(...) and the renaming after it do: raise,
\* or answer with a frame, which is empty for a symbol yfinance does not know.
YfAnswers ==
  {[exception |-> "Exception", frame |-> <<>>]}
    \cup {[exception |-> "none", frame |-> f] : f \in FramesOf({One})}

\* No call of the source in this call of get_history.
NotCalled == [exception |-> "not called", frame |-> <<>>]

\* What the Chart API request comes to: requests.get raises (no connection,
\* timeout), raise_for_status raises (HTTP status 4xx, 5xx), r.json() raises
\* (the body is not JSON), or the JSON is there: without a result, with
\* timestamps and quotes of different lengths, or with one close or null per
\* timestamp.
ChartResponses ==
  {[http |-> h, body |-> "none", close |-> <<>>] : h \in {"ConnectionError", "HTTPError"}}
    \cup {[http |-> "ok", body |-> b, close |-> <<>>] : b \in {"not JSON", "no result", "ragged"}}
    \cup {[http |-> "ok", body |-> "quotes", close |-> c] : c \in FramesOf({None, One})}

\* df.dropna(subset=["Close"])
DropNaClose(f) == SelectSeq(f, LAMBDA v : v # None)

\* _yahoo_chart_history on the response resp: the exception it raises, or
\* "none" and the frame it returns.
YahooChartHistory(resp) ==
  IF resp.http # "ok" THEN [exception |-> resp.http, frame |-> <<>>]
  ELSE IF resp.body = "not JSON" THEN [exception |-> "JSONDecodeError", frame |-> <<>>]
  ELSE IF resp.body = "no result" THEN [exception |-> "none", frame |-> <<>>]
  ELSE IF resp.body = "ragged" THEN [exception |-> "ValueError", frame |-> <<>>]
  ELSE [exception |-> "none", frame |-> DropNaClose(resp.close)]

\* except Exception: the classes the two sources raise all derive from it.
ExceptionClasses ==
  {"Exception", "ConnectionError", "HTTPError", "JSONDecodeError", "ValueError"}

ExceptException(e) == e \in ExceptionClasses

\* The Chart API as the only source.
ChartOnly == "chart"

\* if HAS_YF: ... the source the body of get_history turns to first.
FirstSource == IF HAS_YF THEN "yfinance" ELSE "chart"

\* @cache_data(ttl=900): st.cache_data keeps the return value of a call
\* under its arguments; without Streamlit the decorator does nothing.
CacheKeys == {<<t, p[1], p[2]>> : t \in Tickers, p \in Periods}

NoEntry == [stored |-> FALSE, frame |-> <<>>, error |-> FALSE]

Stored(key, frame, error) ==
  IF HAS_ST
  THEN [cache EXCEPT ![key] = [stored |-> TRUE, frame |-> frame, error |-> error]]
  ELSE cache

\* Between two calls of get_history.
BetweenCalls ==
  /\ ticker = "" /\ start = NoDate /\ end = NoDate
  /\ tried = <<>>
  /\ yf_answer = NotCalled /\ chart_answer = NotCalled
  /\ hist = <<>>
  /\ error_shown = FALSE /\ hit = FALSE
  /\ hpc = "idle"

HistoryIdle ==
  /\ HAS_YF = FALSE /\ HAS_ST = FALSE
  /\ cache = [k \in CacheKeys |-> NoEntry]
  /\ raised = "none"
  /\ BetweenCalls

\* The module is imported: yfinance and streamlit are installed or not.
InitHistory ==
  /\ HAS_YF \in BOOLEAN
  /\ HAS_ST \in BOOLEAN
  /\ cache = [k \in CacheKeys |-> NoEntry]
  /\ raised = "none"
  /\ BetweenCalls
  /\ StatsIdle
  /\ WatchlistIdle

\* get_history(ticker, start, end) is called and the body starts: there is
\* no cache, or no entry under these arguments.
CallGetHistory ==
  /\ hpc = "idle"
  /\ \E t \in Tickers, p \in Periods :
       /\ ~(HAS_ST /\ cache[<<t, p[1], p[2]>>].stored)
       /\ ticker' = t /\ start' = p[1] /\ end' = p[2]
  /\ hpc' = "body"
  /\ UNCHANGED <<HAS_YF, HAS_ST, cache, tried, yf_answer, chart_answer, hist,
                 error_shown, hit, raised>>
  /\ UNCHANGED <<statsVars, wlVars>>

\* get_history is called with arguments the cache has an entry for: the
\* body does not run, the call returns the stored frame.  Whether the stored
\* st.error is shown again is up to the Streamlit version.
CacheHit ==
  /\ hpc = "idle"
  /\ HAS_ST
  /\ \E t \in Tickers, p \in Periods :
       LET entry == cache[<<t, p[1], p[2]>>]
       IN  /\ entry.stored
           /\ ticker' = t /\ start' = p[1] /\ end' = p[2]
           /\ hist' = entry.frame
           /\ error_shown' \in {entry.error, FALSE}
  /\ hit' = TRUE
  /\ hpc' = "returned"
  /\ UNCHANGED <<HAS_YF, HAS_ST, cache, tried, yf_answer, chart_answer, raised>>
  /\ UNCHANGED <<statsVars, wlVars>>

\* if HAS_YF: try: hist = yf.Ticker(ticker).history(...); ...; return hist
\*            except Exception: pass
YfHistory ==
  /\ hpc = "body"
  /\ FirstSource = "yfinance"
  /\ \E a \in YfAnswers :
       /\ yf_answer' = a
       /\ tried' = Append(tried, "yfinance")
       /\ IF a.exception = "none"
          THEN /\ hist' = a.frame
               /\ cache' = Stored(<<ticker, start, end>>, a.frame, FALSE)
               /\ hpc' = "returned"
               /\ raised' = raised
          ELSE IF ExceptException(a.exception)
          THEN /\ hpc' = "fallback"
               /\ UNCHANGED <<hist, cache, raised>>
          ELSE /\ hpc' = "raised"
               /\ raised' = a.exception
               /\ UNCHANGED <<hist, cache>>
  /\ UNCHANGED <<HAS_YF, HAS_ST, ticker, start, end, chart_answer, error_shown, hit>>
  /\ UNCHANGED <<statsVars, wlVars>>

\* try: return _yahoo_chart_history(ticker, start, end, interval="1d")
\* except Exception as e: ui_error(...); return pd.DataFrame()
ChartHistory ==
  /\ \/ hpc = "body" /\ FirstSource = "chart"
     \/ hpc = "fallback"
  /\ \E resp \in ChartResponses :
       LET a == YahooChartHistory(resp)
       IN  /\ chart_answer' = a
           /\ tried' = Append(tried, "chart")
           /\ IF a.exception = "none"
              THEN /\ hist' = a.frame
                   /\ cache' = Stored(<<ticker, start, end>>, a.frame, FALSE)
                   /\ hpc' = "returned"
                   /\ UNCHANGED <<error_shown, raised>>
              ELSE IF ExceptException(a.exception)
              THEN /\ error_shown' = TRUE
                   /\ hist' = <<>>
                   /\ cache' = Stored(<<ticker, start, end>>, <<>>, TRUE)
                   /\ hpc' = "returned"
                   /\ raised' = raised
              ELSE /\ hpc' = "raised"
                   /\ raised' = a.exception
                   /\ UNCHANGED <<hist, cache, error_shown>>
  /\ UNCHANGED <<HAS_YF, HAS_ST, ticker, start, end, yf_answer, hit>>
  /\ UNCHANGED <<statsVars, wlVars>>

\* The caller has the frame; the program goes on to its next call.
NextCall ==
  /\ hpc = "returned"
  /\ ticker' = "" /\ start' = NoDate /\ end' = NoDate
  /\ tried' = <<>>
  /\ yf_answer' = NotCalled /\ chart_answer' = NotCalled
  /\ hist' = <<>>
  /\ error_shown' = FALSE /\ hit' = FALSE
  /\ hpc' = "idle"
  /\ UNCHANGED <<HAS_YF, HAS_ST, cache, raised>>
  /\ UNCHANGED <<statsVars, wlVars>>

\* ttl=900: an entry of the cache is 15 minutes old and is dropped.
Expire ==
  /\ hpc = "idle"
  /\ \E k \in CacheKeys :
       /\ cache[k].stored
       /\ cache' = [cache EXCEPT ![k] = NoEntry]
  /\ UNCHANGED <<HAS_YF, HAS_ST, ticker, start, end, tried, yf_answer,
                 chart_answer, hist, error_shown, hit, raised, hpc>>
  /\ UNCHANGED <<statsVars, wlVars>>

NextHistory ==
  CallGetHistory \/ CacheHit \/ YfHistory \/ ChartHistory \/ NextCall \/ Expire

SpecHistory == InitHistory /\ [][NextHistory]_vars

(***************************************************************************)
(* The watchlist: load_watchlist, save_watchlist and the two buttons       *)
(***************************************************************************)
\* The order of Python strings, by code point: "A" < "M" < "a".
CodePointRank == ("AAPL" :> 1) @@ ("MSFT" :> 2) @@ ("aapl" :> 3)

\* What the user may type into the manual ticker box, and
\* manual.strip().upper() of it.
ManualTexts == {" aapl", "msft "}
StripUpper(text) == ((" aapl" :> "AAPL") @@ ("msft " :> "MSFT"))[text]

\* selected_symbol when a button is pressed: the entry chosen in the select
\* box, as the table has it, or the manual text, stripped and upper-cased.
Selections == Symbols \cup {StripUpper(text) : text \in ManualTexts}

Range(seq) == {seq[i] : i \in 1..Len(seq)}

\* The symbols written as they come: no set, no sort.
AsGiven(symbols) == symbols

\* sorted(list(set(symbols)))
RECURSIVE SortedSet(_)
SortedSet(symbols) ==
  IF Len(symbols) = 0 THEN <<>>
  ELSE LET S == Range(symbols)
           m == CHOOSE x \in S : \A y \in S : CodePointRank[x] <= CodePointRank[y]
       IN  <<m>> \o SortedSet(SelectSeq(symbols, LAMBDA x : x # m))

\* load_watchlist(): the JSON list of the file; [] when the file is missing,
\* is not JSON or holds something that is not a list.
LoadWatchlist(f) == IF f.kind = "list" THEN f.items ELSE <<>>

\* How a save ends: both statements run; open(..., "w") raises and the file is
\* as before; or json.dump raises after open has truncated the file.
SaveOutcomes == {"ok", "open fails", "write fails"}

\* The file after save_watchlist(symbols).
SaveWatchlist(f, symbols, outcome) ==
  IF outcome = "ok" THEN [kind |-> "list", items |-> SortedSet(symbols)]
  ELSE IF outcome = "open fails" THEN f
  ELSE [kind |-> "not JSON", items |-> <<>>]

\* The record of a save for the properties: what it wrote, if it succeeded.
WrittenBy(symbols, outcome) ==
  IF outcome = "ok" THEN [any |-> TRUE, items |-> SortedSet(symbols)] ELSE written

\* The file the program finds: none, one that is not JSON, JSON that is not a
\* list, or a list of symbols in any order, repeated or not.
StoredFiles ==
  {[kind |-> k, items |-> <<>>] : k \in {"missing", "not JSON", "not a list"}}
    \cup {[kind |-> "list", items |-> l] :
            l \in UNION {[1..n -> Symbols] : n \in 0..MaxStored}}

InitWatchlist ==
  /\ file \in StoredFiles
  /\ written = [any |-> FALSE, items |-> <<>>]
  /\ last_press = [op |-> "none", symbol |-> ""]
  /\ last_action = [s \in Symbols |-> "none"]
  /\ all_saved = TRUE
  /\ StatsIdle
  /\ HistoryIdle

\* The button "Añadir a watchlist":
\* wl = load_watchlist(); wl.append(selected_symbol); save_watchlist(wl)
AddToWatchlist ==
  /\ \E selected_symbol \in Selections, outcome \in SaveOutcomes :
       LET wl == Append(LoadWatchlist(file), selected_symbol)
       IN  /\ file' = SaveWatchlist(file, wl, outcome)
           /\ written' = WrittenBy(wl, outcome)
           /\ all_saved' = (all_saved /\ outcome = "ok")
           /\ last_press' = [op |-> "add", symbol |-> selected_symbol]
           /\ last_action' = [last_action EXCEPT ![selected_symbol] = "add"]
  /\ UNCHANGED <<statsVars, histVars>>

\* The button "Quitar de watchlist":
\* wl = load_watchlist()
\* if selected_symbol in wl: wl = [s for s in wl if s != selected_symbol]
\*                           save_watchlist(wl)
\* else: st.info("No estaba en watchlist")
RemoveFromWatchlist ==
  /\ \E selected_symbol \in Selections, outcome \in SaveOutcomes :
       LET wl == LoadWatchlist(file)
           kept == SelectSeq(wl, LAMBDA s : s # selected_symbol)
       IN  /\ IF selected_symbol \in Range(wl)
              THEN /\ file' = SaveWatchlist(file, kept, outcome)
                   /\ written' = WrittenBy(kept, outcome)
                   /\ all_saved' = (all_saved /\ outcome = "ok")
              ELSE UNCHANGED <<file, written, all_saved>>
           /\ last_press' = [op |-> "remove", symbol |-> selected_symbol]
           /\ last_action' = [last_action EXCEPT ![selected_symbol] = "remove"]
  /\ UNCHANGED <<statsVars, histVars>>

NextWatchlist == AddToWatchlist \/ RemoveFromWatchlist

SpecWatchlist == InitWatchlist /\ [][NextWatchlist]_vars

(***************************************************************************)
(* The state machine: one call of compute_stats on a caller's frame, and   *)
(* the display of its result                                               *)
(***************************************************************************)
Rows == [Date : Dates, Close : Closes]

\* The dates of the rows of f are pairwise distinct.
OneRowPerDate(f) == \A i, j \in 1..Len(f) : i < j => f[i].Date # f[j].Date

\* The caller holds a frame of up to MaxLen rows, in any row order; the call
\* has not started.  A fetch gives one row per date; rows of equal date are
\* explored in the frames of up to MaxSameDateLen rows.
Init ==
  /\ \E n \in 0..MaxLen :
       /\ price_df \in [1..n -> Rows]
       /\ (n > MaxSameDateLen) => OneRowPerDate(price_df)
  /\ df = <<>>
  /\ stats = AllNone
  /\ shown = [k \in StatKeys |-> Blank]
  /\ exc = "none"
  /\ pc = "call"
  /\ HistoryIdle
  /\ WatchlistIdle

\* The body working on the caller's own frame: sorted in place, the return
\* column added to it.
WorkedInPlace(f, work) ==
  [i \in 1..Len(work) |->
     [Date |-> work[i].Date, Close |-> work[i].Close, return |-> Returns(work)[i]]]

\* The caller's frame f after a call whose body worked on the frame work.
\* work is price_df.copy().sort_values('Date'), a new object both times, and
\* df['return'] = ... adds the column to that object: the caller's frame
\* keeps its rows, their order and its two columns.
CallerFrame(f, work) == f

\* The calls of compute_stats: the caller calls once, and may call again on
\* the frame it still holds.
Calling == pc \in {"call", "returned"}
AfterCall == IF pc = "call" THEN "returned" ELSE "again"

\* if price_df is None or price_df.empty: return {k: None ...}
ReturnEmpty ==
  /\ Calling
  /\ Len(price_df) = 0
  /\ stats' = AllNone
  /\ pc' = AfterCall
  /\ UNCHANGED <<price_df, df, shown, exc>>
  /\ UNCHANGED <<histVars, wlVars>>

\* df = price_df.copy().sort_values('Date') and the rest of the body.  No
\* statement of the body raises on a frame of timestamps and numbers (numpy
\* division by zero gives inf or NaN), and the two try blocks swallow what
\* they would raise: the call always returns a dict.
\* The sort is a deterministic algorithm: the order in which it leaves rows
\* of equal date is open, but a frame it has sorted before comes out as it
\* did before.
ComputeStats ==
  /\ Calling
  /\ Len(price_df) > 0
  /\ \E f \in SortValues(price_df) :
       /\ df \in SortValues(price_df) => f = df
       /\ df' = f
       /\ stats' = StatsOfSorted(f)
       /\ price_df' = CallerFrame(price_df, f)
  /\ pc' = AfterCall
  /\ UNCHANGED <<shown, exc>>
  /\ UNCHANGED <<histVars, wlVars>>

\* sc1.metric("Rentabilidad YTD", format_pct(stats['Ret YTD'])) and the four
\* lines after it.  An exception of format_pct is not caught: it ends the run
\* of the page with nothing more written.
FormatStats ==
  /\ pc = "returned"
  /\ LET texts == [k \in StatKeys |-> FormatPct(stats[k])]
     IN  IF \E k \in StatKeys : texts[k].kind = "TypeError"
         THEN /\ exc' = "TypeError"
              /\ pc' = "raised"
              /\ shown' = shown
         ELSE /\ shown' = texts
              /\ pc' = "shown"
              /\ exc' = exc
  /\ UNCHANGED <<price_df, df, stats>>
  /\ UNCHANGED <<histVars, wlVars>>

Next == ReturnEmpty \/ ComputeStats \/ FormatStats

Spec == Init /\ [][Next]_vars

(***************************************************************************)
(* Vocabulary of the properties                                            *)
(***************************************************************************)
Returned == pc = "returned"

NumRows == Len(price_df)

PositiveCloses == \A i \in 1..Len(price_df) : price_df[i].Close > 0

DistinctDates ==
  \A i, j \in 1..Len(price_df) : i # j => price_df[i].Date # price_df[j].Date

\* The series has at least one return: two points or more, positive closes.
HasReturns == NumRows >= 2 /\ PositiveCloses

\* a is an earlier calendar date than b, by year, month and day.
Earlier(a, b) ==
  \/ a.year < b.year
  \/ a.year = b.year /\ a.month < b.month
  \/ a.year = b.year /\ a.month = b.month /\ a.day < b.day

(***************************************************************************)
(* C1: for every series of fewer than 2 points (empty or one point),       *)
(* compute_stats returns all five fields None; none is NaN or a number.    *)
(* Stated for the well-formed series (positive closes).  The code returns  *)
(* Max Drawdown = NaN for a one-point series.                              *)
(***************************************************************************)
C1_ShortSeriesAllAbsent ==
  (Returned /\ NumRows < 2 /\ PositiveCloses) => \A k \in StatKeys : stats[k] = None

(***************************************************************************)
(* C2: for every series of at least 2 points with positive closes, Max     *)
(* Drawdown is the minimum over all points i, the first included, of       *)
(* C_i/M_i - 1, where C_i = close_i/close_0 and M_i = max(C_0..C_i): the   *)
(* first observation counts as a peak.  The code leaves the first point    *)
(* out of the running maximum.                                             *)
(***************************************************************************)
\* The greatest close among rows 1..i of the date-ordered frame f.
PeakUpTo(f, i) == CHOOSE m \in {f[j].Close : j \in 1..i} :
                    \A j \in 1..i : f[j].Close <= m

\* C_i/M_i - 1 = close_i/peak_i - 1 = (close_i - peak_i)/peak_i, as the pair
\* <<numerator, denominator>>.
DrawdownAt(f, i) == <<f[i].Close - PeakUpTo(f, i), PeakUpTo(f, i)>>

\* The index of a deepest drawdown of f, the first point included.
DeepestAt(f) == CHOOSE i \in 1..Len(f) :
                  \A j \in 1..Len(f) :
                    DrawdownAt(f, i)[1] * DrawdownAt(f, j)[2]
                      <= DrawdownAt(f, j)[1] * DrawdownAt(f, i)[2]

C2_DrawdownCountsFirstPeak ==
  (Returned /\ HasReturns /\ DistinctDates) =>
    LET dd == stats["Max Drawdown"]
        w  == DrawdownAt(df, DeepestAt(df))
    IN  /\ IsFin(dd)
        /\ dd.num * w[2] = w[1] * dd.den

(***************************************************************************)
(* C3: if a series contains a price <= 0, compute_stats reports an         *)
(* explicit InvalidInput failure to its caller, and returns no result.     *)
(* The code has no such check: it returns a dict.                          *)
(***************************************************************************)
C3_BadPriceRaisesInvalidInput ==
  (pc # "call" /\ \E i \in 1..Len(price_df) : price_df[i].Close <= 0)
    => (pc = "raised" /\ exc = "InvalidInput")

(***************************************************************************)
(* C4: whenever the series has at least one return (2 points or more,      *)
(* positive closes) Max Drawdown is present and is a value <= 0; it is     *)
(* absent (None) only when the series has no returns.                      *)
(***************************************************************************)
C4_DrawdownPresentAndNonPositive ==
  Returned =>
    LET dd == stats["Max Drawdown"]
    IN  /\ HasReturns => (IsFin(dd) /\ dd.num <= 0)
        /\ dd = None => NumRows < 2

\* A series with returns whose drawdown is strictly negative.
C4_Witness ==
  /\ Returned
  /\ HasReturns
  /\ IsFin(stats["Max Drawdown"])
  /\ stats["Max Drawdown"].num < 0

(***************************************************************************)
(* C5: the result does not depend on the order of the input rows: for      *)
(* every series with pairwise distinct dates, in any row order, the call   *)
(* returns the five values it returns for the date-ascending series.       *)
(***************************************************************************)
\* The rows of f in ascending date order (the dates of f pairwise distinct):
\* row i is the one with exactly i-1 earlier rows.
Ascending(f) ==
  [i \in 1..Len(f) |->
     f[CHOOSE j \in 1..Len(f) :
         Cardinality({k \in 1..Len(f) : Earlier(f[k].Date, f[j].Date)}) = i - 1]]

\* The results a call of compute_stats on the frame f can return.
CallResults(f) ==
  IF Len(f) = 0 THEN {AllNone} ELSE {StatsOfSorted(g) : g \in SortValues(f)}

C5_RowOrderIrrelevant ==
  (Returned /\ DistinctDates) => CallResults(Ascending(price_df)) = {stats}

\* A call on three rows given out of date order, with numbers to compare.
C5_Witness ==
  /\ Returned
  /\ DistinctDates
  /\ NumRows = 3
  /\ PositiveCloses
  /\ Earlier(price_df[2].Date, price_df[1].Date)
  /\ Earlier(price_df[2].Date, price_df[3].Date)
  /\ price_df[1].Close # price_df[3].Close
  /\ stats["Max Drawdown"] # Zero
  /\ stats["Ret 1Y"] # None

(***************************************************************************)
(* C6: Ret YTD is computed over the window that starts on January 1 of the *)
(* year of the last observation of the series: it is present exactly when  *)
(* at least 2 points have a date >= that January 1, and then equals the    *)
(* close of the last point of the window divided by the close of the first *)
(* point of the window, minus 1.                                           *)
(***************************************************************************)
\* The latest date of the rows of f (f not empty).
LastDate(f) == CHOOSE d \in {f[i].Date : i \in 1..Len(f)} :
                 \A i \in 1..Len(f) : ~Earlier(d, f[i].Date)

\* The date d is on or after January 1 of the year of the date last.
InYtdWindow(d, last) == d.year >= last.year

\* The value v is close_last / close_first - 1 over the window w.
IsReturnOver(v, w) ==
  /\ IsFin(v)
  /\ v.num * w[1].Close = (w[Len(w)].Close - w[1].Close) * v.den

C6_RetYtdWindow ==
  Returned =>
    IF NumRows = 0 THEN stats["Ret YTD"] = None
    ELSE LET last == LastDate(price_df)
             w == SelectSeq(df, LAMBDA row : InYtdWindow(row.Date, last))
             n == Cardinality({i \in 1..NumRows : InYtdWindow(price_df[i].Date, last)})
         IN  /\ stats["Ret YTD"] # None <=> n >= 2
             /\ (n >= 2 /\ PositiveCloses) => IsReturnOver(stats["Ret YTD"], w)

\* A series reaching back before January 1 of its last year, with two points
\* in that year and a non-zero return over them.
C6_Witness ==
  /\ Returned
  /\ NumRows = 3
  /\ PositiveCloses
  /\ DistinctDates
  /\ \E i \in 1..NumRows : ~InYtdWindow(price_df[i].Date, LastDate(price_df))
  /\ IsFin(stats["Ret YTD"])
  /\ stats["Ret YTD"].num # 0

(***************************************************************************)
(* C7: Ret 1Y is computed over the window of points with date >= the last  *)
(* date minus one calendar year, the bound included: it is present exactly *)
(* when that window holds at least 2 points and then equals last close /   *)
(* first close of the window - 1; two points dated exactly one calendar    *)
(* year apart with the price doubling give Ret 1Y = 1.                     *)
(***************************************************************************)
\* The date d is on or after the day one calendar year before last: the
\* same month and day of the year before, or the last day of that month when
\* the month is too short for the day.
InOneYearWindow(d, last) ==
  \/ d.year >= last.year
  \/ /\ d.year = last.year - 1
     /\ \/ d.month > last.month
        \/ /\ d.month = last.month
           /\ \/ d.day >= last.day
              \/ d.day = DaysInMonth(d.year, d.month)

C7_Ret1yWindow ==
  Returned =>
    IF NumRows = 0 THEN stats["Ret 1Y"] = None
    ELSE LET last == LastDate(price_df)
             w == SelectSeq(df, LAMBDA row : InOneYearWindow(row.Date, last))
             n == Cardinality({i \in 1..NumRows : InOneYearWindow(price_df[i].Date, last)})
         IN  /\ stats["Ret 1Y"] # None <=> n >= 2
             /\ (n >= 2 /\ PositiveCloses) => IsReturnOver(stats["Ret 1Y"], w)
             /\ ( /\ NumRows = 2
                  /\ df[1].Date = [last EXCEPT !.year = last.year - 1]
                  /\ df[1].Close > 0
                  /\ df[2].Close = 2 * df[1].Close ) => stats["Ret 1Y"] = One

\* Two points exactly one calendar year apart, the price doubling, and an
\* earlier point left out of the window.
C7_Witness ==
  /\ Returned
  /\ NumRows = 3
  /\ PositiveCloses
  /\ DistinctDates
  /\ \E i \in 1..NumRows : ~InOneYearWindow(price_df[i].Date, LastDate(price_df))
  /\ df[2].Date = [df[3].Date EXCEPT !.year = df[3].Date.year - 1]
  /\ df[2].Close > 0
  /\ df[3].Close = 2 * df[2].Close
  /\ stats["Ret 1Y"] = One

(***************************************************************************)
(* C8: CAGR is present exactly when the series has at least 2 points and   *)
(* the last date is later than the first date, and its value depends only  *)
(* on the first and last points: changing the close of an interior point   *)
(* leaves CAGR unchanged.                                                  *)
(***************************************************************************)
C8_CagrFirstAndLastOnly ==
  Returned =>
    /\ stats["CAGR"] # None <=>
         (NumRows >= 2 /\ \E i \in 1..NumRows : Earlier(price_df[i].Date, LastDate(price_df)))
    /\ (stats["CAGR"] # None /\ PositiveCloses) => stats["CAGR"].kind \in {"Fin", "PowM1"}
    /\ \A i \in 1..Len(df) : \A c \in Closes :
         (1 < i /\ i < Len(df)) =>
           Cagr([df EXCEPT ![i].Close = c]) = stats["CAGR"]

\* Growth over three points with an interior point, and a CAGR to compare.
C8_Witness ==
  /\ Returned
  /\ NumRows = 3
  /\ PositiveCloses
  /\ DistinctDates
  /\ stats["CAGR"].kind = "PowM1"
  /\ df[2].Close # df[1].Close
  /\ df[2].Close # df[3].Close

(***************************************************************************)
(* C9: Vol anual is absent for every series of fewer than 3 price points   *)
(* (fewer than 2 returns) and present for every series of 3 or more points *)
(* with positive closes.                                                   *)
(***************************************************************************)
C9_VolNeedsTwoReturns ==
  Returned =>
    /\ NumRows < 3 => stats["Vol anual"] = None
    /\ (NumRows >= 3 /\ PositiveCloses) => stats["Vol anual"].kind \in {"Fin", "Sqrt"}

\* Two points: one return, no volatility, although the other statistics exist;
C9_Witness ==
  /\ Returned
  /\ NumRows = 2
  /\ PositiveCloses
  /\ stats["CAGR"].kind = "PowM1"
  /\ stats["Vol anual"] = None

(***************************************************************************)
(* C10: later recovery never hides a drawdown: for every series S of at    *)
(* least 2 points and every S' obtained by appending later-dated points to *)
(* S, Max Drawdown of S' <= Max Drawdown of S; so a 50% single-step drop   *)
(* gives a max drawdown of at most -0.5 whatever follows it.  The code     *)
(* leaves the first point out of the running maximum (C2): a 50% drop in   *)
(* the first step gives 0.                                                 *)
(***************************************************************************)
\* The first n rows of f.
Prefix(f, n) == SubSeq(f, 1, n)

\* For every S = the first n >= 2 rows of the date-ordered series, the rest
\* being later-dated: Max Drawdown of the whole <= Max Drawdown of S.
AppendingNeverRaisesDrawdown ==
  \A n \in 2..(Len(df) - 1) :
    Earlier(df[n].Date, df[n + 1].Date) =>
      XLe(stats["Max Drawdown"], MaxDrawdown(Prefix(df, n)))

\* A step of the date-ordered series halves the price.
HasHalvingStep == \E i \in 1..(Len(df) - 1) : 2 * df[i + 1].Close = df[i].Close

C10_RecoveryNeverHidesDrawdown ==
  (Returned /\ HasReturns /\ DistinctDates) =>
    /\ AppendingNeverRaisesDrawdown
    /\ HasHalvingStep => XLe(stats["Max Drawdown"], Fin(0 - 1, 2))

(***************************************************************************)
(* C11: for every series of at least 2 points whose closes are strictly    *)
(* increasing in date order, Max Drawdown is exactly 0.                    *)
(***************************************************************************)
\* The closes of the caller's frame rise strictly with the date: of two rows
\* the later-dated has the greater close, and no two rows share a date.
StrictlyIncreasing ==
  /\ DistinctDates
  /\ \A i, j \in 1..NumRows :
       Earlier(price_df[i].Date, price_df[j].Date) => price_df[i].Close < price_df[j].Close

C11_IncreasingSeriesNoDrawdown ==
  (Returned /\ HasReturns /\ StrictlyIncreasing) => stats["Max Drawdown"] = Zero

\* Three rising points, handed over out of date order.
C11_Witness ==
  /\ Returned
  /\ NumRows = 3
  /\ PositiveCloses
  /\ StrictlyIncreasing
  /\ Earlier(price_df[3].Date, price_df[1].Date)
  /\ stats["Max Drawdown"] = Zero

(***************************************************************************)
(* C12: for every price series, the empty and the one-point series         *)
(* included, each of the five statistics is displayed either as the        *)
(* formatted percentage of a finite number or as the placeholder dash:     *)
(* compute_stats followed by format_pct never raises and never renders NaN *)
(* or infinity as a number.                                                *)
(***************************************************************************)
Shown == pc = "shown"

C12_DisplayDashOrFinitePct ==
  /\ pc # "raised"
  /\ exc = "none"
  /\ Shown =>
       \A k \in StatKeys :
         \/ shown[k] = Dash /\ ~IsNumber(stats[k])
         \/ shown[k].kind = "Pct" /\ IsNumber(stats[k])

\* A one-point series on display: the NaN drawdown and the four absent fields
\* are dashes.
C12_Witness ==
  /\ Shown
  /\ NumRows = 1
  /\ IsNaN(stats["Max Drawdown"])
  /\ \A k \in StatKeys : shown[k] = Dash

(***************************************************************************)
(* C13: for every constant-price series with n >= 3 points on distinct     *)
(* dates: Vol anual = 0, Max Drawdown = 0, CAGR = 0, and Ret 1Y and        *)
(* Ret YTD are each 0 whenever their window covers at least 2 points.      *)
(***************************************************************************)
ConstantPrice == \A i, j \in 1..NumRows : price_df[i].Close = price_df[j].Close

\* The number of points of the caller's frame in the year-to-date window and
\* in the one-year window of its last date.
PointsInYtdWindow ==
  Cardinality({i \in 1..NumRows : InYtdWindow(price_df[i].Date, LastDate(price_df))})

PointsInOneYearWindow ==
  Cardinality({i \in 1..NumRows : InOneYearWindow(price_df[i].Date, LastDate(price_df))})

C13_ConstantPriceAllZero ==
  (Returned /\ NumRows >= 3 /\ PositiveCloses /\ DistinctDates /\ ConstantPrice) =>
    /\ stats["Vol anual"] = Zero
    /\ stats["Max Drawdown"] = Zero
    /\ stats["CAGR"] = Zero
    /\ PointsInYtdWindow >= 2 => stats["Ret YTD"] = Zero
    /\ PointsInOneYearWindow >= 2 => stats["Ret 1Y"] = Zero

\* Three points at one price, two of them in the last year: all five are 0.
C13_Witness ==
  /\ Returned
  /\ NumRows = 3
  /\ PositiveCloses
  /\ DistinctDates
  /\ ConstantPrice
  /\ PointsInYtdWindow = 2
  /\ PointsInOneYearWindow >= 2
  /\ \A k \in StatKeys : stats[k] = Zero

(***************************************************************************)
(* C14: compute_stats is a pure function: calling it twice on the same     *)
(* series yields identical results, and a call leaves the caller's input   *)
(* series unchanged (same rows, same order, no added column).              *)
(***************************************************************************)
\* A step that is a call of compute_stats, and one that is the second call.
CallStep == Calling /\ pc' = AfterCall
SecondCallStep == pc = "returned" /\ pc' = "again"

BodyReturned == hpc = "returned" /\ ~hit

YfRaised == yf_answer.exception \notin {"none", "not called"}
ChartFailed == chart_answer.exception \notin {"none", "not called"}

C15_SourcesInFixedOrder ==
  /\ hpc # "raised" /\ raised = "none"
  /\ hpc = "fallback" => (HAS_YF /\ YfRaised /\ tried = <<"yfinance">>)
  /\ hit => tried = <<>>
  /\ BodyReturned =>
       /\ tried \in {<<"yfinance">>, <<"chart">>, <<"yfinance", "chart">>}
       /\ HAS_YF <=> tried[1] = "yfinance"
       /\ tried[Len(tried)] = "chart" <=> (~HAS_YF \/ YfRaised)
       /\ ChartFailed => (hist = <<>> /\ error_shown)
       /\ (HAS_YF /\ ~YfRaised) => (hist = yf_answer.frame /\ tried = <<"yfinance">>)
       /\ (tried[Len(tried)] = "chart" /\ ~ChartFailed) =>
            (hist = chart_answer.frame /\ ~error_shown)

\* yfinance is installed and raised, the Chart API failed as well: the call
\* has returned an empty frame and shown the error.
C15_Witness ==
  /\ BodyReturned
  /\ HAS_YF
  /\ YfRaised
  /\ ChartFailed
  /\ tried = <<"yfinance", "chart">>
  /\ hist = <<>>
  /\ error_shown

(***************************************************************************)
(* C16: starting from any stored watchlist and after any sequence of "add  *)
(* to watchlist" and "remove from watchlist" actions in which every save   *)
(* succeeds, the list written by the last save is sorted ascending and has *)
(* no duplicates, contains the symbol of the last add, and contains no     *)
(* occurrence of a symbol after it was removed; removing a symbol that is  *)
(* not in the watchlist writes nothing.                                    *)
(***************************************************************************)
\* The list goes up strictly in the order of Python strings.
SortedNoDuplicates(l) ==
  \A i, j \in 1..Len(l) : i < j => CodePointRank[l[i]] < CodePointRank[l[j]]

\* After saves that all succeeded: the last list written is sorted without
\* duplicates and is what the file holds; a symbol whose last button was
\* "add" is in it, and one whose last button was "remove" is not.
C16_AfterSaves ==
  all_saved =>
    /\ written.any =>
         /\ SortedNoDuplicates(written.items)
         /\ file = [kind |-> "list", items |-> written.items]
    /\ last_press.op = "add" => (written.any /\ last_press.symbol \in Range(written.items))
    /\ \A s \in Symbols :
         /\ last_action[s] = "add" => (written.any /\ s \in Range(written.items))
         /\ last_action[s] = "remove" =>
              (s \notin Range(written.items) /\ s \notin Range(LoadWatchlist(file)))

\* A press of "remove" for a symbol that is not in the watchlist leaves the
\* file as it is and writes no list.
C16_RemoveAbsent ==
  (last_press'.op = "remove" /\ last_press'.symbol \notin Range(LoadWatchlist(file))) =>
    (file' = file /\ written' = written)

C16_WatchlistSaves == [](C16_AfterSaves) /\ [][C16_RemoveAbsent]_vars

\* Every save has succeeded: AAPL was added and is in the list last written,
\* aapl was removed after that and is not, and the file holds that list.
C16_Witness ==
  /\ all_saved
  /\ last_press = [op |-> "remove", symbol |-> "aapl"]
  /\ last_action["AAPL"] = "add"
  /\ written = [any |-> TRUE, items |-> <<"AAPL", "MSFT">>]
  /\ file.items = written.items

=============================================================================
